---- MODULE Spec2Model ----
(***************************************************************************)
(* Model of oracle_to_snowflake_migration.py: main() and                   *)
(* DataMigrator.migrate_table with the helpers it calls.                   *)
(*                                                                         *)
(* The two stores are the environment.  The source result is the row       *)
(* sequence 0..n-1 (a row is named by its index in the DataFrame); the     *)
(* prior rows of the target table are negative numbers.  A write_pandas    *)
(* call is one COPY statement (on_error is left at abort_statement), so    *)
(* it lands a whole batch or nothing.  Every call into a store draws its   *)
(* outcome from the outcomes the code distinguishes: a value, a raised     *)
(* Exception, or KeyboardInterrupt (a BaseException, so no                 *)
(* `except Exception` clause catches it).                                  *)
(***************************************************************************)
EXTENDS Integers, Sequences, FiniteSets, TLC

\* Bounds of the model.
MaxRows == 5
MaxBatch == 3
NegBatch == 2
MaxPrior == 1

\* os.getenv('BATCH_SIZE', '10000')
DEFAULT_BATCH_SIZE == 10000

VARIABLES
    pc,                 \* position in main() / migrate_table
    if_exists,          \* args.if_exists: "append" or "replace"
    batch_size,         \* DataMigrator.batch_size = int(BATCH_SIZE)
    oracle_conn,        \* DatabaseConnector.oracle_conn is set (not None)
    snowflake_conn,     \* DatabaseConnector.snowflake_conn is set
    table_info,         \* get_table_info's row_count: "none", "known", "Unknown"
    df_len,             \* len(df); -1 while df is unbound
    num_batches,        \* local num_batches of the batched branch
    batch_num,          \* loop variable of the batched branch
    total_rows_loaded,  \* accumulator of the batched branch
    total_rows,         \* rows reported in the statistics; -1 while unbound
    ret,                \* how the try body of migrate_table ended:
                        \* "none", "True", "False", "KeyboardInterrupt"
    exit_code,          \* sys.exit code; -1 while the process runs
    asked,              \* main() prompted for confirmation
    response,           \* what the user answered: "none", "accepted", "declined"
    warnings,           \* logger.warning calls of close_connections
    target,             \* rows of the Snowflake table
    prior,              \* rows of the Snowflake table before the run
    events              \* calls made into the two stores, in order

vars == <<pc, if_exists, batch_size, oracle_conn, snowflake_conn, table_info,
          df_len, num_batches, batch_num, total_rows_loaded, total_rows, ret,
          exit_code, asked, response, warnings, target, prior, events>>

----------------------------------------------------------------------------
\* Arithmetic of Python integers.

Min(a, b) == IF a < b THEN a ELSE b

Max(a, b) == IF a > b THEN a ELSE b

\* a // b for b # 0: the quotient rounded towards minus infinity.
FloorDiv(a, b) == IF b > 0 THEN a \div b ELSE (0 - a) \div (0 - b)

\* The rows lo..hi-1 of the DataFrame, in order.
Rows(lo, hi) == [k \in 1..(hi - lo) |-> lo + k - 1]

\* One bound of df.iloc[start:stop] on a frame of n rows: a negative bound
\* counts from the end, and every bound is clamped to 0..n.
SliceBound(x, n) == IF x < 0 THEN Max(x + n, 0) ELSE Min(x, n)

\* df.iloc[start:stop] as the pair <<lo, hi>> of the rows lo..hi-1 it holds.
ILoc(n, start, stop) ==
    LET lo == SliceBound(start, n)
        hi == SliceBound(stop, n)
    IN  <<lo, Max(lo, hi)>>

----------------------------------------------------------------------------
\* The batch plan of migrate_table.

\* len(df) > self.batch_size
UseBatches(n, b) == n > b

\* Mutant of NumBatches: the quotient without the rounding up.
NumBatchesFloor(n, b) == FloorDiv(n, b)

\* (len(df) + self.batch_size - 1) // self.batch_size
NumBatches(n, b) == FloorDiv(n + b - 1, b)

\* start_idx = batch_num * self.batch_size
StartIdx(i, b) == i * b

\* end_idx = min((batch_num + 1) * self.batch_size, len(df))
EndIdx(i, b, n) == Min((i + 1) * b, n)

\* batch_df = df.iloc[start_idx:end_idx]
BatchRange(i, b, n) == ILoc(n, StartIdx(i, b), EndIdx(i, b, n))

\* The sizes of the frames migrate_table passes to load_data_to_snowflake for
\* a result of n rows and a batch size b # 0: the batches of the loop, or
\* the whole frame in the else branch.
PlanSizes(n, b) ==
    IF UseBatches(n, b)
       THEN [i \in 1..NumBatches(n, b) |->
                LET range == BatchRange(i - 1, b, n) IN range[2] - range[1]]
       ELSE <<n>>

\* Mutant of BatchIfExists: the configured mode on every batch.
BatchIfExistsEvery(mode, i) == mode

\* batch_if_exists = if_exists if batch_num == 0 else 'append'
BatchIfExists(mode, i) == IF i = 0 THEN mode ELSE "append"

\* Mutant of Overwrite: overwrite=True whatever the mode.
OverwriteAlways(mode) == TRUE

\* overwrite=(if_exists == 'replace')
Overwrite(mode) == mode = "replace"

\* if df.empty: return True, 0 -- write_pandas is not called
IsEmpty(range) == range[2] <= range[1]

\* The table after a successful write_pandas of the rows `range`.
WritePandas(tbl, range, overwrite) ==
    IF overwrite THEN Rows(range[1], range[2])
                 ELSE tbl \o Rows(range[1], range[2])

----------------------------------------------------------------------------
\* The log of calls into the stores.

Event(op, batch, range, mode, res, nrows, dropped) ==
    [op |-> op, batch |-> batch, lo |-> range[1], hi |-> range[2],
     mode |-> mode, res |-> res, nrows |-> nrows, dropped |-> dropped]

Call(op, res) == Event(op, 0, <<0, 0>>, "-", res, 0, FALSE)

Log(e) == events' = Append(events, e)

EventsOf(ops) == SelectSeq(events, LAMBDA e : e.op \in ops)

Count(ops) == Len(EventsOf(ops))

----------------------------------------------------------------------------
BatchSizes == (0 - NegBatch)..MaxBatch

PriorTables == {[k \in 1..m |-> 0 - k] : m \in 0..MaxPrior}

TryPcs == {"connect_oracle", "connect_snowflake", "extract", "load",
           "batch", "single"}

Init ==
    /\ pc = "validate"
    /\ if_exists \in {"append", "replace"}
    /\ batch_size \in BatchSizes
    /\ oracle_conn = FALSE
    /\ snowflake_conn = FALSE
    /\ table_info = "none"
    /\ df_len = -1
    /\ num_batches = 0
    /\ batch_num = 0
    /\ total_rows_loaded = 0
    /\ total_rows = -1
    /\ ret = "none"
    /\ exit_code = -1
    /\ asked = FALSE
    /\ response = "none"
    /\ warnings = 0
    /\ prior \in PriorTables
    /\ target = prior
    /\ events = <<>>

----------------------------------------------------------------------------
\* main(), before the migrator runs.

Exit(code) ==
    /\ pc' = "exited"
    /\ exit_code' = code

\* if not validate_environment(): sys.exit(1)
ValidateEnvironment ==
    /\ pc = "validate"
    /\ \E ok \in BOOLEAN :
          IF ok THEN pc' = "confirm" /\ exit_code' = exit_code
                ELSE Exit(1)
    /\ UNCHANGED <<if_exists, batch_size, oracle_conn, snowflake_conn,
                   table_info, df_len, num_batches, batch_num,
                   total_rows_loaded, total_rows, ret, asked, response, warnings,
                   target, prior, events>>

\* The answers the user may type at the prompt.
Responses == {"yes", "y", "YES", "Y", "no", "n", ""}

\* response.lower()
Lower(text) == CASE text = "YES" -> "yes"
                 [] text = "Y" -> "y"
                 [] OTHER -> text

\* response.lower() in ['yes', 'y']
Accepted(text) == Lower(text) \in {"yes", "y"}

\* Mutant of NeedsConfirmation: the prompt is shown under either policy.
NeedsConfirmationAlways(mode) == TRUE

\* if args.if_exists == 'replace':
NeedsConfirmation(mode) == mode = "replace"

\* if args.if_exists == 'replace': response = input(...); a response other
\* than yes / y ends the process with sys.exit(0).
Confirm ==
    /\ pc = "confirm"
    /\ IF NeedsConfirmation(if_exists)
          THEN /\ asked' = TRUE
               /\ \E text \in Responses :
                     IF Accepted(text)
                        THEN /\ response' = "accepted"
                             /\ pc' = "construct"
                             /\ exit_code' = exit_code
                        ELSE /\ response' = "declined"
                             /\ Exit(0)
          ELSE /\ asked' = asked
               /\ response' = response
               /\ pc' = "construct"
               /\ exit_code' = exit_code
    /\ UNCHANGED <<if_exists, batch_size, oracle_conn, snowflake_conn,
                   table_info, df_len, num_batches, batch_num,
                   total_rows_loaded, total_rows, ret, warnings,
                   target, prior, events>>

\* migrator = DataMigrator(): int(os.getenv('BATCH_SIZE', ...)) and the log
\* file set-up may raise; main() turns any Exception into sys.exit(1).
Construct ==
    /\ pc = "construct"
    /\ \E ok \in BOOLEAN :
          IF ok THEN pc' = "connect_oracle" /\ exit_code' = exit_code
                ELSE Exit(1)
    /\ UNCHANGED <<if_exists, batch_size, oracle_conn, snowflake_conn,
                   table_info, df_len, num_batches, batch_num,
                   total_rows_loaded, total_rows, ret, asked, response, warnings,
                   target, prior, events>>

----------------------------------------------------------------------------
\* migrate_table: the try body.

\* Mutant of Leave: the outcome goes to the caller without the finally
\* clause.
LeaveWithoutCleanup(value) ==
    /\ ret' = value
    /\ pc' = "returned"

\* The try body ends with `return value` or with a raised exception; control
\* passes to the finally clause.
Leave(value) ==
    /\ ret' = value
    /\ pc' = "close_oracle"

\* Mutant of Connected: the result of the connect call is ignored.
ConnectedAlways(outcome) == TRUE

\* if not self.db_connector.connect_oracle(): return False (and the same for
\* connect_snowflake): the run goes on only when the connect call returned True.
Connected(outcome) == outcome = "ok"

\* connect_oracle(): "ok" sets oracle_conn and passes the SELECT 1 FROM DUAL
\* test; "refused" is oracledb.connect raising (oracle_conn stays None);
\* "test_failed" is the test query raising after oracle_conn was set.  Both
\* failures are caught inside connect_oracle, which returns False.
ConnectOracle(outcome) ==
    /\ pc = "connect_oracle"
    /\ oracle_conn' = (oracle_conn \/ outcome \in {"ok", "test_failed"})
    /\ Log(Call("connect_oracle", outcome))
    /\ IF Connected(outcome)
          THEN pc' = "connect_snowflake" /\ ret' = ret
          ELSE Leave("False")
    /\ UNCHANGED <<if_exists, batch_size, snowflake_conn, table_info, df_len,
                   num_batches, batch_num, total_rows_loaded, total_rows,
                   exit_code, asked, response, warnings, target, prior>>

\* connect_snowflake(): as connect_oracle.
ConnectSnowflake(outcome) ==
    /\ pc = "connect_snowflake"
    /\ snowflake_conn' = (snowflake_conn \/ outcome \in {"ok", "test_failed"})
    /\ Log(Call("connect_snowflake", outcome))
    /\ IF Connected(outcome)
          THEN pc' = "extract" /\ ret' = ret
          ELSE Leave("False")
    /\ UNCHANGED <<if_exists, batch_size, oracle_conn, table_info, df_len,
                   num_batches, batch_num, total_rows_loaded, total_rows,
                   exit_code, asked, response, warnings, target, prior>>

\* Mutant of ReadOk: a failed read is swallowed and the run goes on.
ReadOkAlways(outcome) == TRUE

\* pd.read_sql returned a frame; otherwise `except Exception: ... raise`
\* hands the Exception to migrate_table.
ReadOk(outcome) == outcome = "ok"

\* extract_data_from_oracle(): get_table_info probes the table (a failed probe
\* yields 'Unknown' and is not fatal), then pd.read_sql reads the result; an
\* Exception is re-raised and caught by migrate_table, which returns False.
ExtractData(info, outcome, n) ==
    /\ pc = "extract"
    /\ IF ~oracle_conn
          THEN /\ events' = events
               /\ UNCHANGED <<table_info, df_len>>
               /\ Leave("False")
          ELSE /\ table_info' = info
               /\ events' = events \o <<Call("probe", info), Call("read", outcome)>>
               /\ IF ReadOk(outcome)
                     THEN df_len' = n /\ pc' = "load" /\ ret' = ret
                     ELSE df_len' = df_len /\ Leave("False")
    /\ UNCHANGED <<if_exists, batch_size, oracle_conn, snowflake_conn,
                   num_batches, batch_num, total_rows_loaded, total_rows,
                   exit_code, asked, response, warnings, target, prior>>

\* if len(df) > self.batch_size: ... num_batches = ceiling division ...
\* else: the whole frame in one call.  A batch size of 0 makes the division
\* raise ZeroDivisionError, which migrate_table catches.
PlanLoad ==
    /\ pc = "load"
    /\ IF UseBatches(df_len, batch_size)
          THEN IF batch_size = 0
                  THEN /\ Leave("False")
                       /\ UNCHANGED <<num_batches, batch_num, total_rows_loaded>>
                  ELSE /\ num_batches' = NumBatches(df_len, batch_size)
                       /\ batch_num' = 0
                       /\ total_rows_loaded' = 0
                       /\ pc' = "batch"
                       /\ ret' = ret
          ELSE /\ pc' = "single"
               /\ ret' = ret
               /\ UNCHANGED <<num_batches, batch_num, total_rows_loaded>>
    /\ UNCHANGED <<if_exists, batch_size, oracle_conn, snowflake_conn,
                   table_info, df_len, total_rows, exit_code, asked, response, warnings,
                   target, prior, events>>

----------------------------------------------------------------------------
\* load_data_to_snowflake.

\* The row count write_pandas may report for a batch of `size` rows.
Reported(size) == {size - 1, size, size + 1}

WriterOutcomes == {"ok", "not_success", "raise"}

\* How load_data_to_snowflake(batch, table, mode) ends: "raise" without a live
\* connection, "empty" for an empty frame (return True, 0), otherwise what
\* write_pandas did: "ok" (return True, nrows), "not_success" (return
\* False, 0) or "raise" (the Exception is re-raised).
LoadResult(range, outcome) ==
    IF ~snowflake_conn THEN "raise"
    ELSE IF IsEmpty(range) THEN "empty"
    ELSE outcome

\* Mutant of Succeeded: a failed batch does not stop the loop.
SucceededAlways(res) == TRUE

\* success, batch_rows = load_data_to_snowflake(...); if not success: return
\* False -- and a raised Exception leaves the loop as well.
Succeeded(res) == res \in {"ok", "empty"}

\* The call itself: its effect on the table and its entry in the log.  A
\* rejected write lands no row; with overwrite the table may or may not have
\* been dropped by then (`dropped`).
LoadDataToSnowflake(i, range, mode, outcome, nrows, dropped) ==
    LET res == LoadResult(range, outcome)
        called == res \in WriterOutcomes /\ snowflake_conn
        gone == called /\ Overwrite(mode) /\ (res = "ok" \/ dropped)
    IN  /\ target' = IF called /\ res = "ok"
                        THEN WritePandas(target, range, Overwrite(mode))
                     ELSE IF gone THEN <<>>
                     ELSE target
        /\ Log(Event("load", i, range, mode, res,
                     IF res = "ok" THEN nrows ELSE 0, gone))

\* One iteration of `for batch_num in range(num_batches)`.
LoadBatch(outcome, dropped) ==
    /\ pc = "batch"
    /\ batch_num < num_batches
    /\ LET range == BatchRange(batch_num, batch_size, df_len)
           mode == BatchIfExists(if_exists, batch_num)
           res == LoadResult(range, outcome)
       IN  \E nrows \in Reported(range[2] - range[1]) :
              /\ LoadDataToSnowflake(batch_num, range, mode, outcome, nrows, dropped)
              /\ IF Succeeded(res)
                    THEN /\ total_rows_loaded' = total_rows_loaded
                                + (IF res = "ok" THEN nrows ELSE 0)
                         /\ batch_num' = batch_num + 1
                         /\ pc' = pc
                         /\ ret' = ret
                    ELSE /\ Leave("False")
                         /\ UNCHANGED <<total_rows_loaded, batch_num>>
    /\ UNCHANGED <<if_exists, batch_size, oracle_conn, snowflake_conn,
                   table_info, df_len, num_batches, total_rows, exit_code,
                   asked, response, warnings, prior>>

\* The loop is over: total_rows = total_rows_loaded, the statistics are
\* printed and migrate_table returns True.
FinishBatches ==
    /\ pc = "batch"
    /\ batch_num >= num_batches
    /\ total_rows' = total_rows_loaded
    /\ Leave("True")
    /\ UNCHANGED <<if_exists, batch_size, oracle_conn, snowflake_conn,
                   table_info, df_len, num_batches, batch_num,
                   total_rows_loaded, exit_code, asked, response, warnings, target,
                   prior, events>>

\* The else branch: success, total_rows = load_data_to_snowflake(df, table,
\* if_exists), then the statistics and return True.
LoadAll(outcome, dropped) ==
    /\ pc = "single"
    /\ LET range == <<0, df_len>>
           res == LoadResult(range, outcome)
       IN  \E nrows \in Reported(df_len) :
              /\ LoadDataToSnowflake(0, range, if_exists, outcome, nrows, dropped)
              /\ IF Succeeded(res)
                    THEN /\ total_rows' = (IF res = "ok" THEN nrows ELSE 0)
                         /\ Leave("True")
                    ELSE /\ total_rows' = total_rows
                         /\ Leave("False")
    /\ UNCHANGED <<if_exists, batch_size, oracle_conn, snowflake_conn,
                   table_info, df_len, num_batches, batch_num,
                   total_rows_loaded, exit_code, asked, response, warnings, prior>>

\* Ctrl+C while the try body runs: `except Exception` does not catch
\* KeyboardInterrupt, the finally clause runs and the exception propagates.
KeyboardInterruptInTry ==
    /\ pc \in TryPcs
    /\ Leave("KeyboardInterrupt")
    /\ UNCHANGED <<if_exists, batch_size, oracle_conn, snowflake_conn,
                   table_info, df_len, num_batches, batch_num,
                   total_rows_loaded, total_rows, exit_code, asked, response, warnings,
                   target, prior, events>>

----------------------------------------------------------------------------
\* migrate_table: the finally clause, close_connections().

\* if self.oracle_conn: try: close() except Exception: logger.warning(...)
CloseOracle(error) ==
    /\ pc = "close_oracle"
    /\ IF oracle_conn
          THEN /\ Log(Call("close_oracle", IF error THEN "error" ELSE "ok"))
               /\ warnings' = warnings + (IF error THEN 1 ELSE 0)
          ELSE UNCHANGED <<events, warnings>>
    /\ pc' = "close_snowflake"
    /\ UNCHANGED <<if_exists, batch_size, oracle_conn, snowflake_conn,
                   table_info, df_len, num_batches, batch_num,
                   total_rows_loaded, total_rows, ret, exit_code, asked, response,
                   target, prior>>

\* if self.snowflake_conn: try: close() except Exception: ...; then the
\* pending return value or exception of the try body takes effect.
CloseSnowflake(error) ==
    /\ pc = "close_snowflake"
    /\ IF snowflake_conn
          THEN /\ Log(Call("close_snowflake", IF error THEN "error" ELSE "ok"))
               /\ warnings' = warnings + (IF error THEN 1 ELSE 0)
          ELSE UNCHANGED <<events, warnings>>
    /\ pc' = IF ret = "KeyboardInterrupt" THEN "raised" ELSE "returned"
    /\ UNCHANGED <<if_exists, batch_size, oracle_conn, snowflake_conn,
                   table_info, df_len, num_batches, batch_num,
                   total_rows_loaded, total_rows, ret, exit_code, asked, response,
                   target, prior>>

\* Ctrl+C while the finally clause runs: close_connections catches only
\* Exception, so the KeyboardInterrupt leaves it at once and replaces the
\* pending return value; the closes not yet made are skipped.
KeyboardInterruptInFinally ==
    /\ pc \in {"close_oracle", "close_snowflake"}
    /\ ret' = "KeyboardInterrupt"
    /\ pc' = "raised"
    /\ UNCHANGED <<if_exists, batch_size, oracle_conn, snowflake_conn,
                   table_info, df_len, num_batches, batch_num,
                   total_rows_loaded, total_rows, exit_code, asked, response, warnings,
                   target, prior, events>>

\* Mutant of ExitCodeOf: only a returned False counts as a failure.
ExitCodeOfFalseOnly(outcome) == IF outcome = "False" THEN 1 ELSE 0

\* if success: sys.exit(0) else: sys.exit(1); except KeyboardInterrupt:
\* sys.exit(1)
ExitCodeOf(outcome) == IF outcome = "True" THEN 0 ELSE 1

\* main() after migrate_table: sys.exit(0) if it returned True, sys.exit(1)
\* if it returned False or KeyboardInterrupt reached main().
MainExit ==
    /\ pc \in {"returned", "raised"}
    /\ Exit(ExitCodeOf(ret))
    /\ UNCHANGED <<if_exists, batch_size, oracle_conn, snowflake_conn,
                   table_info, df_len, num_batches, batch_num,
                   total_rows_loaded, total_rows, ret, asked, response, warnings,
                   target, prior, events>>

----------------------------------------------------------------------------
ConnectOutcomes == {"ok", "refused", "test_failed"}

Next ==
    \/ ValidateEnvironment
    \/ Confirm
    \/ Construct
    \/ \E outcome \in ConnectOutcomes : ConnectOracle(outcome)
    \/ \E outcome \in ConnectOutcomes : ConnectSnowflake(outcome)
    \/ \E info \in {"known", "Unknown"}, outcome \in {"ok", "raise"}, n \in 0..MaxRows :
          ExtractData(info, outcome, n)
    \/ PlanLoad
    \/ \E outcome \in WriterOutcomes, dropped \in BOOLEAN : LoadBatch(outcome, dropped)
    \/ FinishBatches
    \/ \E outcome \in WriterOutcomes, dropped \in BOOLEAN : LoadAll(outcome, dropped)
    \/ KeyboardInterruptInTry
    \/ \E error \in BOOLEAN : CloseOracle(error)
    \/ \E error \in BOOLEAN : CloseSnowflake(error)
    \/ KeyboardInterruptInFinally
    \/ MainExit

Spec == Init /\ [][Next]_vars

\* The process is single-threaded and every call into a store returns or
\* raises, so a step that can be taken is eventually taken.
FairSpec == Spec /\ WF_vars(Next)

----------------------------------------------------------------------------
\* Vocabulary of the properties.

\* The calls of load_data_to_snowflake, in order.
Loads == EventsOf({"load"})

\* migrate_table has returned to main() (it did not end in an exception).
Returned == pc \in {"returned", "exited"} /\ ret \in {"True", "False"}

\* The least k with k * b >= n, for b > 0.
CeilDiv(n, b) == CHOOSE k \in 0..n : k * b >= n /\ (k = 0 \/ (k - 1) * b < n)

RECURSIVE SumSizes(_)
SumSizes(L) == IF L = <<>> THEN 0
               ELSE (L[1].hi - L[1].lo) + SumSizes(Tail(L))

\* The rows of this run in a table (the prior rows are negative).
RunRows(tbl) == SelectSeq(tbl, LAMBDA x : x >= 0)

\* A load call that failed: the writer raised or returned success = False.
Failed(e) == e.res \in {"not_success", "raise"}

\* A load call that returned success: the batch landed, or it was empty.
Landed(e) == e.res \in {"ok", "empty"}

\* The load calls that reached write_pandas.
Writes == Len(SelectSeq(Loads, LAMBDA e : e.res # "empty"))

----------------------------------------------------------------------------
\* C1: with a batch size b > 0 the batches handed to the writer are
\* contiguous row ranges in index order, without gap or overlap, each of at
\* most b rows and all but the last of exactly b rows; when the run succeeds
\* they cover rows 0..r-1, their sizes sum to r and there are ceil(r/b) of
\* them (one empty batch for r = 0).
C1_BatchesPartition ==
    batch_size > 0 =>
        LET L == Loads
        IN  /\ \A i \in 1..Len(L) :
                  /\ L[i].batch = i - 1
                  /\ L[i].lo = (IF i = 1 THEN 0 ELSE L[i - 1].hi)
                  /\ L[i].lo <= L[i].hi
                  /\ L[i].hi <= df_len
                  /\ L[i].hi - L[i].lo <= batch_size
                  /\ (i < Len(L) => L[i].hi - L[i].lo = batch_size)
            /\ ret = "True" =>
                  /\ Len(L) = (IF df_len = 0 THEN 1 ELSE CeilDiv(df_len, batch_size))
                  /\ L[Len(L)].hi = df_len
                  /\ SumSizes(L) = df_len

\* C1 witness: a successful run of three batches whose last one is short.
C1_Witness ==
    /\ batch_size > 0
    /\ ret = "True"
    /\ Len(Loads) = 3
    /\ Loads[3].hi - Loads[3].lo < batch_size
    /\ Loads[3].hi = df_len

----------------------------------------------------------------------------
\* The load calls that discarded the prior contents of the table.
Drops == Len(SelectSeq(Loads, LAMBDA e : e.dropped))

\* C2: under policy "replace" the prior contents are discarded exactly once,
\* by the write of batch 0 and before its rows land (once that write has
\* returned success the table holds no prior row); every write of a batch
\* i >= 1 is issued with "append" and discards nothing.
C2_ReplaceOnceByBatchZero ==
    if_exists = "replace" =>
        LET L == Loads
        IN  /\ \A i \in 2..Len(L) : L[i].mode = "append" /\ ~L[i].dropped
            /\ (Len(L) >= 1 /\ Landed(L[1])) =>
                  /\ L[1].dropped
                  /\ Drops = 1
                  /\ RunRows(target) = target

----------------------------------------------------------------------------
\* C3: when the write of batch k fails (the writer raises or returns
\* success = False) it is the last batch attempted, every earlier batch had
\* succeeded and stays in the table, which holds exactly the rows before
\* batch k of this run and none from batch k on, and migrate_table does not
\* report success: once it returns, it returns False.
C3_FailureStopsRun ==
    \A k \in 1..Len(Loads) :
        Failed(Loads[k]) =>
            /\ k = Len(Loads)
            /\ \A j \in 1..(k - 1) : Landed(Loads[j])
            /\ RunRows(target) = Rows(0, Loads[k].lo)
            /\ ret \in {"False", "KeyboardInterrupt"}
            /\ (Returned => ret = "False")

\* C3 witness: the third batch failed after two batches had landed, and
\* migrate_table returned False.
C3_Witness ==
    /\ Returned
    /\ ret = "False"
    /\ Len(Loads) = 3
    /\ Failed(Loads[3])
    /\ Len(RunRows(target)) = 2 * batch_size
    /\ batch_size > 0

----------------------------------------------------------------------------
\* The connect calls on `op` that left a connection open.
Opens(op) == Len(SelectSeq(events, LAMBDA e : e.op = op /\ e.res \in {"ok", "test_failed"}))

IsClose(e) == e.op \in {"close_oracle", "close_snowflake"}

\* migrate_table is over, by a return or by an exception.
Left == pc \in {"returned", "raised", "exited"} /\ ret # "none"

\* C4: on every exit of migrate_table each opened connection has been closed
\* exactly once (closes = opens), no connection is ever closed twice, and no
\* call into a store follows a close.
C4_ConnectionsClosedOnce ==
    /\ Count({"close_oracle"}) <= Opens("connect_oracle")
    /\ Count({"close_snowflake"}) <= Opens("connect_snowflake")
    /\ \A i, j \in 1..Len(events) : (i < j /\ IsClose(events[i])) => IsClose(events[j])
    /\ Left => /\ Count({"close_oracle"}) = Opens("connect_oracle")
               /\ Count({"close_snowflake"}) = Opens("connect_snowflake")

----------------------------------------------------------------------------
\* C5: whenever migrate_table returns True, the rows it reports as loaded
\* (the sum of the counts the writer reported) equal the rows extracted.
C5_LoadedEqualsExtracted ==
    (Returned /\ ret = "True") => total_rows = df_len

----------------------------------------------------------------------------
\* C6: with b > 0, a "replace" run that returns True leaves the table holding
\* exactly the extracted rows 0..r-1, the empty result included.
C6_ReplaceLeavesExtractedRows ==
    (Returned /\ ret = "True" /\ if_exists = "replace" /\ batch_size > 0)
        => target = Rows(0, df_len)

----------------------------------------------------------------------------
\* C7: with b > 0 no write of an "append" run removes a prior row (the prior
\* contents stay the head of the table and nothing is discarded), and a run
\* that returns True leaves the prior rows followed by the extracted rows in
\* source order, written by ceil(r/b) write_pandas calls; 25,000 rows with
\* the default batch size are planned as 10,000, 10,000 and 5,000.
C7_AppendKeepsPrior ==
    /\ (if_exists = "append" /\ batch_size > 0) =>
          /\ Len(target) >= Len(prior)
          /\ SubSeq(target, 1, Len(prior)) = prior
          /\ Drops = 0
          /\ (Returned /\ ret = "True") =>
                /\ target = prior \o Rows(0, df_len)
                /\ Writes = CeilDiv(df_len, batch_size)
    /\ PlanSizes(25000, DEFAULT_BATCH_SIZE) = <<10000, 10000, 5000>>

\* C7 witness: an "append" run onto a non-empty table returned True after
\* three batches.
C7_Witness ==
    /\ Returned
    /\ ret = "True"
    /\ if_exists = "append"
    /\ batch_size > 0
    /\ prior # <<>>
    /\ Writes = 3
    /\ target = prior \o Rows(0, df_len)

----------------------------------------------------------------------------
ReadFailed == \E i \in 1..Len(events) : events[i].op = "read" /\ events[i].res = "raise"

\* C8: when the source read fails no write is issued, the table is as it was
\* before the run under either policy, and migrate_table does not report
\* success: once it returns, it returns False.
C8_ReadFailureLeavesTarget ==
    ReadFailed =>
        /\ Count({"load"}) = 0
        /\ target = prior
        /\ ret \in {"False", "KeyboardInterrupt"}
        /\ (Returned => ret = "False")

\* C8 witness: a "replace" run onto a non-empty table whose read raised has
\* returned.
C8_Witness ==
    /\ Returned
    /\ ReadFailed
    /\ if_exists = "replace"
    /\ prior # <<>>

----------------------------------------------------------------------------
\* C9: a run reads the source at most once; every write comes after the
\* read, which returned a result; the writes carry the batch indices 0, 1,
\* 2, ... in this order, each index once, and batch i+1 is written only
\* after batch i returned success.
C9_OneReadThenOrderedWrites ==
    /\ Count({"read"}) <= 1
    /\ \A j \in 1..Len(events) :
          events[j].op = "load" =>
              \E i \in 1..(j - 1) : events[i].op = "read" /\ events[i].res = "ok"
    /\ \A k \in 1..Len(Loads) :
          /\ Loads[k].batch = k - 1
          /\ (k > 1 => Landed(Loads[k - 1]))

\* C9 witness: one read followed by the writes of batches 0 and 1, the second
\* of which failed.
C9_Witness ==
    /\ Count({"read"}) = 1
    /\ Len(Loads) = 2
    /\ Loads[2].batch = 1
    /\ Loads[2].res = "not_success"
    /\ pc = "returned"

----------------------------------------------------------------------------
ConnectFailed ==
    \E i \in 1..Len(events) :
        /\ events[i].op \in {"connect_oracle", "connect_snowflake"}
        /\ events[i].res # "ok"

\* C10: each connection is attempted at most once; when either attempt fails
\* the run performs no source read and no target write and does not report
\* success: once migrate_table returns, it returns False and a source
\* connection that was opened has been closed.
C10_ConnectFailureAborts ==
    /\ Count({"connect_oracle"}) <= 1
    /\ Count({"connect_snowflake"}) <= 1
    /\ ConnectFailed =>
          /\ Count({"probe", "read", "load"}) = 0
          /\ target = prior
          /\ ret \in {"False", "KeyboardInterrupt"}
          /\ (Returned =>
                /\ ret = "False"
                /\ Count({"close_oracle"}) = Opens("connect_oracle"))

\* C10 witness: the Snowflake connection was refused after the Oracle
\* connection had been opened; migrate_table returned with Oracle closed.
C10_Witness ==
    /\ Returned
    /\ Opens("connect_oracle") = 1
    /\ \E i \in 1..Len(events) :
          events[i].op = "connect_snowflake" /\ events[i].res = "refused"
    /\ Count({"close_oracle"}) = 1

----------------------------------------------------------------------------
\* The states of the orchestrator's state machine, read off the position in
\* migrate_table: INIT while the connections are being made, CONNECTED before
\* the read, EXTRACTED once the frame is bound, WRITING(i) from the moment
\* batch i is due until the next one is, DONE / FAILED while the finally
\* clause runs after `return True` / after `return False` or an exception,
\* RETURNED once control has left migrate_table, NONE while main() has not
\* called it.
Phase ==
    CASE pc \in {"validate", "confirm", "construct"} -> "NONE"
      [] pc \in {"connect_oracle", "connect_snowflake"} -> "INIT"
      [] pc = "extract" -> "CONNECTED"
      [] pc = "load" -> "EXTRACTED"
      [] pc = "single" -> "WRITING"
      [] pc = "batch" -> (IF batch_num = 0 /\ num_batches <= 0
                             THEN "EXTRACTED" ELSE "WRITING")
      [] pc \in {"close_oracle", "close_snowflake"} ->
             (IF ret = "True" THEN "DONE" ELSE "FAILED")
      [] pc \in {"returned", "raised"} -> "RETURNED"
      [] pc = "exited" -> (IF ret = "none" THEN "NONE" ELSE "RETURNED")

\* The i of WRITING(i).
WriteIndex ==
    IF pc = "batch" /\ batch_num >= num_batches THEN batch_num - 1
    ELSE IF pc = "batch" THEN batch_num
    ELSE 0

\* n: the number of batches of the run, once the frame is bound.
Planned ==
    IF df_len < 0 THEN 0
    ELSE IF ~UseBatches(df_len, batch_size) THEN 1
    ELSE IF batch_size = 0 THEN 0
    ELSE Max(NumBatches(df_len, batch_size), 0)

\* One step of the state machine, FAILED being entered from the states in
\* `failing` only.
PhaseStep(failing) ==
    LET p == Phase
        q == Phase'
    IN  \/ q = p /\ (p = "WRITING" => WriteIndex' = WriteIndex)
        \/ p = "NONE" /\ q = "INIT"
        \/ p = "INIT" /\ q = "CONNECTED"
        \/ p = "CONNECTED" /\ q = "EXTRACTED"
        \/ p = "EXTRACTED" /\ q = "WRITING" /\ WriteIndex' = 0
        \/ p = "WRITING" /\ q = "WRITING" /\ WriteIndex' = WriteIndex + 1
        \/ p = "WRITING" /\ q = "DONE" /\ WriteIndex = Planned - 1
        \/ p = "EXTRACTED" /\ q = "DONE" /\ Planned = 0
        \/ p \in failing /\ q = "FAILED"
        \/ p \in {"DONE", "FAILED"} /\ q = "RETURNED"

\* The run makes at most n write attempts, and exactly n when it is DONE.
WriteBound ==
    /\ Len(Loads) <= Planned
    /\ Phase = "DONE" => Len(Loads) = Planned

\* From any state of the run DONE or FAILED is reached, and from either the
\* run gets through the finally clause and control leaves migrate_table.
RunEnds ==
    /\ (pc \in TryPcs) ~> (Phase \in {"DONE", "FAILED"})
    /\ (Phase \in {"DONE", "FAILED"}) ~> (Phase = "RETURNED")

\* C11 as stated: every run follows INIT -> CONNECTED -> EXTRACTED ->
\* WRITING(0) -> ... -> WRITING(n-1) -> DONE, FAILED is entered from
\* CONNECTED, EXTRACTED or a WRITING(i) and never after DONE, control leaves
\* migrate_table only from DONE or FAILED through the finally clause, the
\* run always gets there, and it makes at most n write attempts.
C11_StateMachineAsStated ==
    /\ [][PhaseStep({"CONNECTED", "EXTRACTED", "WRITING"})]_vars
    /\ []WriteBound
    /\ RunEnds

\* C11 as amended: the same, with FAILED entered from INIT as well (a connect
\* call that fails, or an interrupt while connecting).
C11_StateMachine ==
    /\ [][PhaseStep({"INIT", "CONNECTED", "EXTRACTED", "WRITING"})]_vars
    /\ []WriteBound
    /\ RunEnds

\* C11 witness: a run went through WRITING(0) and WRITING(1) to DONE and
\* control has left migrate_table after both closes.
C11_Witness ==
    /\ Phase = "RETURNED"
    /\ ret = "True"
    /\ Planned = 2
    /\ Len(Loads) = 2
    /\ Count({"close_oracle", "close_snowflake"}) = 2

----------------------------------------------------------------------------
\* The run met one of the failures: a connection failure, an extract
\* failure, a write failure or a batch size of 0 (an unexpected exception),
\* or an interrupt.
RunFailed ==
    \/ ConnectFailed
    \/ ReadFailed
    \/ \E k \in 1..Len(Loads) : Failed(Loads[k])
    \/ ret = "KeyboardInterrupt"

\* C12: the process exits with 0 exactly when migrate_table returned True or
\* the user declined the confirmation, with 1 otherwise, and with 1 after
\* every failure: missing configuration or a failed construction (no run, no
\* declined prompt), a failed connection, read or write, and an interrupt.
C12_ExitCodes ==
    /\ (exit_code # -1) <=> (pc = "exited")
    /\ pc = "exited" =>
          /\ exit_code \in {0, 1}
          /\ (exit_code = 0) <=> ((Returned /\ ret = "True") \/ response = "declined")
          /\ RunFailed => exit_code = 1
          /\ (ret = "none" /\ response # "declined") => exit_code = 1

\* C12 witness: the process has exited with 1 after an interrupt that
\* reached main() when two batches had been written.
C12_Witness ==
    /\ pc = "exited"
    /\ exit_code = 1
    /\ ret = "KeyboardInterrupt"
    /\ Len(Loads) = 2

----------------------------------------------------------------------------
\* C13: once the user has declined the "replace" confirmation the process
\* has exited with 0 and migrate_table was never called: no connection was
\* opened, no call into a store was made and the table is as it was; the
\* prompt is shown under "replace" only.
C13_DeclineHasNoEffect ==
    /\ response = "declined" =>
          /\ pc = "exited"
          /\ exit_code = 0
          /\ ret = "none"
          /\ events = <<>>
          /\ ~oracle_conn
          /\ ~snowflake_conn
          /\ target = prior
    /\ asked <=> (if_exists = "replace" /\ pc \notin {"validate", "confirm"}
                     /\ response # "none")
    /\ if_exists = "append" => (~asked /\ response = "none")

\* C13 witness: the user declined a "replace" onto a non-empty table.
C13_Witness ==
    /\ response = "declined"
    /\ if_exists = "replace"
    /\ prior # <<>>
    /\ exit_code = 0

----------------------------------------------------------------------------
\* C14: for every batch size, zero and negative included, when
\* migrate_table returns True the batches handed to the writer cover every
\* extracted row; with a batch size <= 0 and a non-empty result it does not
\* return True having written fewer rows than it extracted.
C14_SuccessCoversAllRows ==
    (Returned /\ ret = "True") =>
        /\ \A x \in 0..(df_len - 1) :
              \E k \in 1..Len(Loads) : Loads[k].lo <= x /\ x < Loads[k].hi
        /\ (batch_size <= 0 /\ df_len > 0) => SumSizes(Loads) >= df_len

====
